---- MODULE Spec2Model ----
(***************************************************************************)
(* A model of heyitsarpit.dev: the local-storage helpers (setLocalStorage, *)
(* getLocalStorage), the scroll-progress bar and the article index.        *)
(*                                                                         *)
(* Four specifications share the module's variables:                       *)
(*   Spec         the storage helpers called in any order with every       *)
(*                value, on one key, in an environment that can block or   *)
(*                fill the store;                                          *)
(*   KeysSpec     the same calls on every key, with a few values;          *)
(*   ScrollSpec   scroll events reaching the provider and the bar;         *)
(*   ContentSpec  the build of the article index and routes.               *)
(***************************************************************************)
EXTENDS Integers, Sequences, FiniteSets

(***************************************************************************)
(* Bounds of the model.                                                    *)
(***************************************************************************)
MaxNum == 1
MaxStrLen == 1
MaxArrLen == 1
MaxOffset == 8
MaxDate == 2

(***************************************************************************)
(* JavaScript values, as far as the helpers can tell them apart.  A value  *)
(* is a record of one shape: t is its type, n a number (or 0/1 for a       *)
(* boolean), s the characters of a string, a the elements of an array.     *)
(***************************************************************************)
JV(t, n, s, a) == [t |-> t, n |-> n, s |-> s, a |-> a]
JUndefined == JV("undefined", 0, <<>>, <<>>)
JNull == JV("null", 0, <<>>, <<>>)
JNaN == JV("nan", 0, <<>>, <<>>)
JBigInt == JV("bigint", 1, <<>>, <<>>)
JBool(b) == JV("bool", IF b THEN 1 ELSE 0, <<>>, <<>>)
JNum(n) == JV("num", n, <<>>, <<>>)
JStr(s) == JV("str", 0, s, <<>>)
JArr(a) == JV("arr", 0, <<>>, a)

QUOTE == "\""
BSLASH == "\\"
DigitChars == <<"0", "1", "2", "3", "4", "5", "6", "7", "8", "9">>
Alphabet == {"a", QUOTE, BSLASH}

SeqsUpTo(S, n) == UNION {[1..m -> S] : m \in 0..n}

Nums == (-MaxNum..MaxNum) \cup {10, -25}
Strs == SeqsUpTo(Alphabet, MaxStrLen)
ArrElems == {JNull, JNum(0), JArr(<<>>)}
Arrs == SeqsUpTo(ArrElems, MaxArrLen)

\* The values a caller can pass as data or initialValue (the type T).
JSONValues ==
  {JNull, JBool(TRUE), JBool(FALSE)}
    \cup {JNum(n) : n \in Nums}
    \cup {JStr(s) : s \in Strs}
    \cup {JArr(a) : a \in Arrs}
Values == JSONValues \cup {JUndefined, JNaN, JBigInt}

\* A value is JSON-serializable when it is null, a boolean, a finite number,
\* a string, or an array of such values.
RECURSIVE IsJSON(_)
IsJSON(v) ==
  \/ v.t \in {"null", "bool", "num", "str"}
  \/ /\ v.t = "arr"
     /\ \A i \in 1..Len(v.a) : IsJSON(v.a[i])

(***************************************************************************)
(* JSON.stringify.  The result is a text (a sequence of characters), or    *)
(* undefined (for undefined), or a TypeError (for a BigInt).               *)
(***************************************************************************)
RECURSIVE DigitText(_)
DigitText(n) ==
  IF n < 10 THEN <<DigitChars[n + 1]>>
  ELSE DigitText(n \div 10) \o <<DigitChars[(n % 10) + 1]>>

NumberText(n) == IF n < 0 THEN <<"-">> \o DigitText(-n) ELSE DigitText(n)

RECURSIVE EscapeText(_)
EscapeText(s) ==
  IF s = <<>> THEN <<>>
  ELSE (IF Head(s) \in {QUOTE, BSLASH} THEN <<BSLASH, Head(s)>> ELSE <<Head(s)>>)
         \o EscapeText(Tail(s))

StringText(s) == <<QUOTE>> \o EscapeText(s) \o <<QUOTE>>

Str(text) == [threw |-> FALSE, undef |-> FALSE, text |-> text]
StrUndefined == [threw |-> FALSE, undef |-> TRUE, text |-> <<>>]
StrThrew == [threw |-> TRUE, undef |-> FALSE, text |-> <<>>]

RECURSIVE JSONStringify(_), StringifyElements(_, _)
JSONStringify(v) ==
  CASE v.t = "undefined" -> StrUndefined
    [] v.t = "bigint" -> StrThrew
    [] v.t \in {"null", "nan"} -> Str(<<"n", "u", "l", "l">>)
    [] v.t = "bool" ->
         IF v.n = 1 THEN Str(<<"t", "r", "u", "e">>)
         ELSE Str(<<"f", "a", "l", "s", "e">>)
    [] v.t = "num" -> Str(NumberText(v.n))
    [] v.t = "str" -> Str(StringText(v.s))
    [] v.t = "arr" ->
         LET r == StringifyElements(v.a, 1) IN
           IF r.threw THEN StrThrew ELSE Str(<<"[">> \o r.text \o <<"]">>)

\* The elements of an array from index i on, separated by commas; an
\* undefined element is written as null.
StringifyElements(a, i) ==
  IF i > Len(a) THEN Str(<<>>)
  ELSE LET e == JSONStringify(a[i])
           rest == StringifyElements(a, i + 1)
           sep == IF i < Len(a) THEN <<",">> ELSE <<>>
       IN  IF e.threw \/ rest.threw THEN StrThrew
           ELSE Str((IF e.undef THEN <<"n", "u", "l", "l">> ELSE e.text)
                      \o sep \o rest.text)

(***************************************************************************)
(* JSON.parse: a recursive-descent parser of the texts above.  A result    *)
(* is a value and the index after it, or a failure (a SyntaxError).        *)
(***************************************************************************)
Parsed(v, next) == [ok |-> TRUE, v |-> v, next |-> next]
ParseFail == [ok |-> FALSE, v |-> JUndefined, next |-> 0]

MatchesAt(txt, i, lit) ==
  /\ i + Len(lit) - 1 <= Len(txt)
  /\ SubSeq(txt, i, i + Len(lit) - 1) = lit

IsDigit(c) == \E d \in 1..10 : DigitChars[d] = c
DigitValue(c) == (CHOOSE d \in 1..10 : DigitChars[d] = c) - 1

\* The digits from index i on, with the number read so far.
RECURSIVE ParseDigits(_, _, _)
ParseDigits(txt, i, acc) ==
  IF i <= Len(txt) /\ IsDigit(txt[i])
  THEN ParseDigits(txt, i + 1, acc * 10 + DigitValue(txt[i]))
  ELSE [n |-> acc, next |-> i]

\* An integer: an optional minus, then 0 or a digit 1-9 and more digits.
ParseNumber(txt, i) ==
  LET neg == txt[i] = "-"
      j == IF neg THEN i + 1 ELSE i
  IN  IF j > Len(txt) \/ ~IsDigit(txt[j]) THEN ParseFail
      ELSE IF txt[j] = "0" THEN Parsed(JNum(0), j + 1)
      ELSE LET d == ParseDigits(txt, j, 0)
           IN  Parsed(JNum(IF neg THEN -d.n ELSE d.n), d.next)

\* The characters of a string from index i on, up to its closing quote.
RECURSIVE ParseString(_, _, _)
ParseString(txt, i, acc) ==
  IF i > Len(txt) THEN ParseFail
  ELSE IF txt[i] = QUOTE THEN Parsed(JStr(acc), i + 1)
  ELSE IF txt[i] = BSLASH
       THEN IF i + 1 <= Len(txt) /\ txt[i + 1] \in {QUOTE, BSLASH}
            THEN ParseString(txt, i + 2, Append(acc, txt[i + 1]))
            ELSE ParseFail
  ELSE ParseString(txt, i + 1, Append(acc, txt[i]))

RECURSIVE ParseValue(_, _), ParseElements(_, _, _)
ParseValue(txt, i) ==
  IF i > Len(txt) THEN ParseFail
  ELSE CASE MatchesAt(txt, i, <<"n", "u", "l", "l">>) -> Parsed(JNull, i + 4)
         [] MatchesAt(txt, i, <<"t", "r", "u", "e">>) -> Parsed(JBool(TRUE), i + 4)
         [] MatchesAt(txt, i, <<"f", "a", "l", "s", "e">>) -> Parsed(JBool(FALSE), i + 5)
         [] txt[i] = QUOTE -> ParseString(txt, i + 1, <<>>)
         [] txt[i] = "-" \/ IsDigit(txt[i]) -> ParseNumber(txt, i)
         [] txt[i] = "[" ->
              IF i + 1 <= Len(txt) /\ txt[i + 1] = "]"
              THEN Parsed(JArr(<<>>), i + 2)
              ELSE ParseElements(txt, i + 1, <<>>)
         [] OTHER -> ParseFail

\* The elements of an array from index i on, up to its closing bracket.
ParseElements(txt, i, acc) ==
  LET r == ParseValue(txt, i) IN
    IF ~r.ok \/ r.next > Len(txt) THEN ParseFail
    ELSE IF txt[r.next] = "," THEN ParseElements(txt, r.next + 1, Append(acc, r.v))
    ELSE IF txt[r.next] = "]" THEN Parsed(JArr(Append(acc, r.v)), r.next + 1)
    ELSE ParseFail

\* JSON.parse(text): the value, or threw (a SyntaxError) when the text is
\* not one whole JSON value.
JSONParse(txt) ==
  LET r == ParseValue(txt, 1) IN
    IF r.ok /\ r.next = Len(txt) + 1
    THEN [threw |-> FALSE, v |-> r.v]
    ELSE [threw |-> TRUE, v |-> JUndefined]

(***************************************************************************)
(* The state.                                                              *)
(*   mode      what the host gives for localStorage: "available" (a        *)
(*             working store), "unavailable" (globalThis.localStorage is   *)
(*             undefined), "blocked" (reading the property throws a        *)
(*             SecurityError), "full" (getItem works, setItem throws a     *)
(*             QuotaExceededError);                                        *)
(*   store     the text stored under each key, if any;                     *)
(*   written   for each key, the most recent write that reached the store: *)
(*             how it was made and the value that was passed;              *)
(*   last      the most recent call of a helper with its result, or        *)
(*             NoCall after a step of the environment;                     *)
(*   scrollY, maxOffset, length, control, bar                              *)
(*             the document's scroll position, the provider's percent and  *)
(*             the bar as ScrollProgress rendered it;                      *)
(*   files, built, index, routes, visit                                    *)
(*             the article files, and what the build generated from them.  *)
(***************************************************************************)
VARIABLES mode, store, written, last,
          scrollY, maxOffset, length, control, bar,
          files, built, index, routes, visit

storageVars == <<mode, store, written, last>>
scrollVars == <<scrollY, maxOffset, length, control, bar>>
contentVars == <<files, built, index, routes, visit>>
vars == <<storageVars, scrollVars, contentVars>>

Keys == {"theme", "visits"}
Modes == {"available", "unavailable", "blocked", "full"}

NoItem == [present |-> FALSE, text |-> <<>>]
Item(text) == [present |-> TRUE, text |-> text]

\* Texts another script of the origin may leave in the store: an empty text
\* and a text that is not JSON.
ForeignTexts == {<<>>, <<"{">>}

(***************************************************************************)
(* setLocalStorage.  A result says whether the call threw, whether it      *)
(* logged an error, the store after it and whether setItem was reached.    *)
(***************************************************************************)
SetDone(st, wrote) == [threw |-> FALSE, logged |-> FALSE, store |-> st, wrote |-> wrote]
SetThrew(st) == [threw |-> TRUE, logged |-> FALSE, store |-> st, wrote |-> FALSE]

\* String(x) as setItem applies it to its second argument.
ToStringText(s) ==
  IF s.undef THEN <<"u", "n", "d", "e", "f", "i", "n", "e", "d">> ELSE s.text

\* SetTry with setItem kept from replacing a text that is already there.
SetTry_KeepExisting(st, m, key, data) ==
  IF m = "blocked" THEN SetThrew(st)
  ELSE IF m = "unavailable" THEN SetDone(st, FALSE)
  ELSE LET s == JSONStringify(data) IN
         IF s.threw THEN SetThrew(st)
         ELSE IF m = "full" THEN SetThrew(st)
         ELSE IF st[key].present THEN SetDone(st, FALSE)
         ELSE SetDone([st EXCEPT ![key] = Item(ToStringText(s))], TRUE)

\* SetTry with the text stored under one fixed key, whatever key is given.
SetTry_FixedKey(st, m, key, data) ==
  IF m = "blocked" THEN SetThrew(st)
  ELSE IF m = "unavailable" THEN SetDone(st, FALSE)
  ELSE LET s == JSONStringify(data) IN
         IF s.threw THEN SetThrew(st)
         ELSE IF m = "full" THEN SetThrew(st)
         ELSE SetDone([st EXCEPT !["theme"] = Item(ToStringText(s))], TRUE)

\* The body of setLocalStorage's try block.
SetTry(st, m, key, data) ==
  IF m = "blocked" THEN SetThrew(st)
  ELSE IF m = "unavailable" THEN SetDone(st, FALSE)
  ELSE LET s == JSONStringify(data) IN
         IF s.threw THEN SetThrew(st)
         ELSE IF m = "full" THEN SetThrew(st)
         ELSE SetDone([st EXCEPT ![key] = Item(ToStringText(s))], TRUE)

\* setLocalStorage with a catch block that throws the error again.
setLocalStorage_Rethrow(st, m, key, data) ==
  LET r == SetTry(st, m, key, data) IN
    IF r.threw
    THEN [threw |-> TRUE, logged |-> TRUE, store |-> st, wrote |-> FALSE]
    ELSE r

setLocalStorage(st, m, key, data) ==
  LET r == SetTry(st, m, key, data) IN
    IF r.threw
    THEN [threw |-> FALSE, logged |-> TRUE, store |-> st, wrote |-> FALSE]
    ELSE r

(***************************************************************************)
(* getLocalStorage.  A result also holds the value returned.               *)
(***************************************************************************)
GetDone(v, st, wrote, logged) ==
  [threw |-> FALSE, logged |-> logged, ret |-> v, store |-> st, wrote |-> wrote]
GetThrew(st) ==
  [threw |-> TRUE, logged |-> FALSE, ret |-> JUndefined, store |-> st, wrote |-> FALSE]

\* if (storedData): a text is truthy when it is there and not empty.
Truthy(item) == item.present /\ item.text # <<>>

\* What JavaScript takes for true: every value but undefined, null, false,
\* 0, NaN and the empty string.
TruthyValue(v) ==
  ~(\/ v.t \in {"undefined", "null", "nan"}
    \/ v.t \in {"bool", "num"} /\ v.n = 0
    \/ v.t = "str" /\ v.s = <<>>)

\* GetTry returning the stored text as it is, unparsed.
GetTry_NoParse(st, m, key, initialValue) ==
  IF m = "blocked" THEN GetThrew(st)
  ELSE IF m = "unavailable" THEN GetDone(initialValue, st, FALSE, FALSE)
  ELSE LET storedData == st[key] IN
         IF Truthy(storedData)
         THEN GetDone(JStr(storedData.text), st, FALSE, FALSE)
         ELSE LET w == setLocalStorage(st, m, key, initialValue) IN
                IF w.threw THEN GetThrew(w.store)
                ELSE GetDone(initialValue, w.store, w.wrote, w.logged)

\* GetTry testing the parsed value, not the stored text, for truth.
GetTry_FalsyValue(st, m, key, initialValue) ==
  IF m = "blocked" THEN GetThrew(st)
  ELSE IF m = "unavailable" THEN GetDone(initialValue, st, FALSE, FALSE)
  ELSE LET storedData == st[key]
           p == IF storedData.present THEN JSONParse(storedData.text)
                ELSE [threw |-> FALSE, v |-> JNull]
       IN  IF p.threw THEN GetThrew(st)
           ELSE IF TruthyValue(p.v) THEN GetDone(p.v, st, FALSE, FALSE)
           ELSE LET w == setLocalStorage(st, m, key, initialValue) IN
                  IF w.threw THEN GetThrew(w.store)
                  ELSE GetDone(initialValue, w.store, w.wrote, w.logged)

\* GetTry storing initialValue over a text that does not parse.
GetTry_Reseed(st, m, key, initialValue) ==
  IF m = "blocked" THEN GetThrew(st)
  ELSE IF m = "unavailable" THEN GetDone(initialValue, st, FALSE, FALSE)
  ELSE LET storedData == st[key]
           p == JSONParse(storedData.text)
       IN  IF Truthy(storedData) /\ ~p.threw THEN GetDone(p.v, st, FALSE, FALSE)
           ELSE LET w == setLocalStorage(st, m, key, initialValue) IN
                  IF w.threw THEN GetThrew(w.store)
                  ELSE GetDone(initialValue, w.store, w.wrote, w.logged)

\* GetTry without the seeding call.
GetTry_NoSeed(st, m, key, initialValue) ==
  IF m = "blocked" THEN GetThrew(st)
  ELSE IF m = "unavailable" THEN GetDone(initialValue, st, FALSE, FALSE)
  ELSE LET storedData == st[key] IN
         IF Truthy(storedData)
         THEN LET p == JSONParse(storedData.text) IN
                IF p.threw THEN GetThrew(st) ELSE GetDone(p.v, st, FALSE, FALSE)
         ELSE GetDone(initialValue, st, FALSE, FALSE)

\* GetTry with a bare return where the store is undefined.
GetTry_BareReturn(st, m, key, initialValue) ==
  IF m = "blocked" THEN GetThrew(st)
  ELSE IF m = "unavailable" THEN GetDone(JUndefined, st, FALSE, FALSE)
  ELSE LET storedData == st[key] IN
         IF Truthy(storedData)
         THEN LET p == JSONParse(storedData.text) IN
                IF p.threw THEN GetThrew(st) ELSE GetDone(p.v, st, FALSE, FALSE)
         ELSE LET w == setLocalStorage(st, m, key, initialValue) IN
                IF w.threw THEN GetThrew(w.store)
                ELSE GetDone(initialValue, w.store, w.wrote, w.logged)

\* The body of getLocalStorage's try block.
GetTry(st, m, key, initialValue) ==
  IF m = "blocked" THEN GetThrew(st)
  ELSE IF m = "unavailable" THEN GetDone(initialValue, st, FALSE, FALSE)
  ELSE LET storedData == st[key] IN
         IF Truthy(storedData)
         THEN LET p == JSONParse(storedData.text) IN
                IF p.threw THEN GetThrew(st) ELSE GetDone(p.v, st, FALSE, FALSE)
         ELSE LET w == setLocalStorage(st, m, key, initialValue) IN
                IF w.threw THEN GetThrew(w.store)
                ELSE GetDone(initialValue, w.store, w.wrote, w.logged)

getLocalStorage(st, m, key, initialValue) ==
  LET r == GetTry(st, m, key, initialValue) IN
    IF r.threw
    THEN [threw |-> FALSE, logged |-> TRUE, ret |-> initialValue,
          store |-> r.store, wrote |-> FALSE]
    ELSE r

(***************************************************************************)
(* The calls, and the environment's steps.                                 *)
(***************************************************************************)
NoWrite == [how |-> "none", v |-> JUndefined]
NoCall == [op |-> "env", key |-> "theme", arg |-> JUndefined, ret |-> JUndefined,
           threw |-> FALSE, logged |-> FALSE]

CallSet(k, v) ==
  LET r == setLocalStorage(store, mode, k, v) IN
    /\ store' = r.store
    /\ written' = IF r.wrote THEN [written EXCEPT ![k] = [how |-> "set", v |-> v]]
                  ELSE written
    /\ last' = [op |-> "set", key |-> k, arg |-> v, ret |-> JUndefined,
                threw |-> r.threw, logged |-> r.logged]
    /\ UNCHANGED <<mode, scrollVars, contentVars>>

CallGet(k, fallback) ==
  LET r == getLocalStorage(store, mode, k, fallback) IN
    /\ store' = r.store
    /\ written' = IF r.wrote
                  THEN [written EXCEPT ![k] =
                          [how |-> IF written[k].how = "none" THEN "seed" ELSE "reseed",
                           v |-> fallback]]
                  ELSE written
    /\ last' = [op |-> "get", key |-> k, arg |-> fallback, ret |-> r.ret,
                threw |-> r.threw, logged |-> r.logged]
    /\ UNCHANGED <<mode, scrollVars, contentVars>>

\* The host blocks the store, unblocks it, fills it or frees room in it.
EnvChange(m) ==
  /\ mode # "unavailable"
  /\ m \in {"available", "blocked", "full"} \ {mode}
  /\ mode' = m
  /\ last' = NoCall
  /\ UNCHANGED <<store, written, scrollVars, contentVars>>

\* Another script of the origin stores a text of its own under a key.
ForeignWrite(k, t) ==
  /\ mode = "available"
  /\ store' = [store EXCEPT ![k] = Item(t)]
  /\ written' = [written EXCEPT ![k] = [how |-> "foreign", v |-> JUndefined]]
  /\ last' = NoCall
  /\ UNCHANGED <<mode, scrollVars, contentVars>>

(***************************************************************************)
(* The scroll provider and the progress bar.  A percent is a rational      *)
(* number num/den with den > 0.                                            *)
(***************************************************************************)
Rat(num, den) == [num |-> num, den |-> den]
RatLeq(x, y) == x.num * y.den <= y.num * x.den
RatEq(x, y) == x.num * y.den = y.num * x.den

Clamp(x) ==
  IF RatLeq(x, Rat(0, 1)) THEN Rat(0, 1)
  ELSE IF RatLeq(Rat(100, 1), x) THEN Rat(100, 1)
  ELSE x

\* The provider's percent for a scroll offset and the largest offset.
ScrollPercent(offset, maxOff) ==
  IF maxOff = 0 THEN Rat(0, 1) ELSE Clamp(Rat(offset * 100, maxOff))

\* ScrollProgress taking length for a fraction of 1.
ScrollProgress_Fraction(ctl, len) ==
  [prop |-> ctl, value |-> Rat(len.num * 100, len.den), unit |-> "%"]

\* <Bar style={{ [control]: `${length}%` }} />
ScrollProgress(ctl, len) == [prop |-> ctl, value |-> len, unit |-> "%"]

\* A scroll event: the provider recomputes the percent and the bar renders
\* again.  The offset may overshoot the range by one (elastic scrolling).
ScrollEvent(offset, maxOff) ==
  /\ scrollY' = offset
  /\ maxOffset' = maxOff
  /\ length' = ScrollPercent(offset, maxOff)
  /\ bar' = ScrollProgress(control, length')
  /\ UNCHANGED <<control, storageVars, contentVars>>

(***************************************************************************)
(* The article index.  An article file has a slug, its front-matter flags  *)
(* and a date; the build lists and routes the articles.                    *)
(***************************************************************************)
SlugOrder == <<"suspense", "hooks", "draft">>
Slugs == {SlugOrder[i] : i \in 1..Len(SlugOrder)}
Dates == 1..MaxDate

NoFile == [present |-> FALSE, published |-> FALSE, listed |-> FALSE, date |-> 1]
Article(p, l, d) == [present |-> TRUE, published |-> p, listed |-> l, date |-> d]

\* InIndex without the published flag.
InIndex_ListedOnly(f) == f.present /\ f.listed

InIndex(f) == f.present /\ f.listed /\ f.published
InRoutes(f) == f.present /\ f.published

\* The slugs of the listed articles of date d, in the files' order.
ListedOn(fs, d) ==
  LET Keep(s) == InIndex(fs[s]) /\ fs[s].date = d IN SelectSeq(SlugOrder, Keep)

\* The index: the listed articles, latest date first.
RECURSIVE IndexFrom(_, _)
IndexFrom(fs, d) == IF d < 1 THEN <<>> ELSE ListedOn(fs, d) \o IndexFrom(fs, d - 1)
BuildIndex(fs) == IndexFrom(fs, MaxDate)
BuildRoutes(fs) == {s \in Slugs : InRoutes(fs[s])}

NoVisit == [slug |-> "suspense", result |-> "none"]

\* The author writes or rewrites an article file; a build is then due.
WriteFile(s, p, l, d) ==
  /\ files' = [files EXCEPT ![s] = Article(p, l, d)]
  /\ built' = FALSE
  /\ index' = <<>>
  /\ routes' = {}
  /\ visit' = NoVisit
  /\ UNCHANGED <<storageVars, scrollVars>>

Build ==
  /\ ~built
  /\ built' = TRUE
  /\ index' = BuildIndex(files)
  /\ routes' = BuildRoutes(files)
  /\ UNCHANGED <<files, visit, storageVars, scrollVars>>

\* A reader follows a direct link to an article.
Visit(s) ==
  /\ built
  /\ visit' = [slug |-> s, result |-> IF s \in routes THEN "page" ELSE "notFound"]
  /\ UNCHANGED <<files, built, index, routes, storageVars, scrollVars>>

(***************************************************************************)
(* The specifications.                                                     *)
(***************************************************************************)
StorageInit ==
  /\ store = [k \in Keys |-> NoItem]
  /\ written = [k \in Keys |-> NoWrite]
  /\ last = NoCall
ScrollInit ==
  /\ scrollY = 0
  /\ maxOffset = 0
  /\ length = Rat(0, 1)
  /\ bar = ScrollProgress(control, Rat(0, 1))
ContentInit ==
  /\ files = [s \in Slugs |-> NoFile]
  /\ built = FALSE
  /\ index = <<>>
  /\ routes = {}
  /\ visit = NoVisit

Init ==
  /\ mode \in Modes
  /\ StorageInit
  /\ control = "width"
  /\ ScrollInit
  /\ ContentInit

\* The key and the values of Spec's calls; the values of KeysSpec's calls
\* (two falsy values, null, and one value that is not JSON).
OneKey == {"theme"}
FewValues == {JNum(0), JStr(<<>>), JNull, JUndefined}

Next ==
  \/ \E k \in OneKey, v \in Values : CallSet(k, v)
  \/ \E k \in OneKey, v \in Values : CallGet(k, v)
  \/ \E m \in Modes : EnvChange(m)
  \/ \E k \in OneKey, t \in ForeignTexts : ForeignWrite(k, t)

Spec == Init /\ [][Next]_vars

KeysNext ==
  \/ \E k \in Keys, v \in FewValues : CallSet(k, v)
  \/ \E k \in Keys, v \in FewValues : CallGet(k, v)
  \/ \E m \in Modes : EnvChange(m)
  \/ \E k \in Keys, t \in ForeignTexts : ForeignWrite(k, t)

KeysSpec == Init /\ [][KeysNext]_vars

ScrollSpecInit ==
  /\ mode = "available"
  /\ StorageInit
  /\ control \in {"width", "height"}
  /\ ScrollInit
  /\ ContentInit

ScrollNext == \E m \in 0..MaxOffset : \E o \in -1..(m + 1) : ScrollEvent(o, m)

ScrollSpec == ScrollSpecInit /\ [][ScrollNext]_vars

ContentNext ==
  \/ \E s \in Slugs, p \in BOOLEAN, l \in BOOLEAN, d \in Dates : WriteFile(s, p, l, d)
  \/ Build
  \/ \E s \in Slugs : Visit(s)

ContentSpecInit ==
  /\ mode = "available"
  /\ StorageInit
  /\ control = "width"
  /\ ScrollInit
  /\ ContentInit

ContentSpec == ContentSpecInit /\ [][ContentNext]_vars

(***************************************************************************)
(* Properties of the storage helpers.  In a step, last' is the call that   *)
(* the step made (its key, its argument, its result) and store, written    *)
(* and mode are as the call found them; a step of the environment leaves   *)
(* last' = NoCall.                                                         *)
(***************************************************************************)
IsCall(c) == c.op \in {"set", "get"}
Unparsable(item) == JSONParse(item.text).threw
Readable == {"available", "full"}

\* C1: with the store available, a getLocalStorage(k, fallback) that comes
\* right after setLocalStorage(k, v), v JSON-serializable, returns v (and
\* not the fallback), also when v is 0, false, null or the empty string.
C1_RoundTrip ==
  [][(/\ last.op = "set"
      /\ mode = "available"
      /\ IsJSON(last.arg)
      /\ last'.op = "get"
      /\ last'.key = last.key)
     => (last'.ret = last.arg /\ ~last'.threw)]_vars

\* A read that returned the falsy value written, not its truthy fallback.
C1_Witness ==
  /\ last.op = "get"
  /\ mode = "available"
  /\ written[last.key] = [how |-> "set", v |-> JNum(0)]
  /\ last.arg = JStr(<<"a">>)
  /\ last.ret = JNum(0)

C3_Original ==
  (/\ last.op = "get"
   /\ mode = "available"
   /\ written[last.key].how = "seed")
  => last.ret = written[last.key].v

\* C3, amended: with the store available, a read of a key never written
\* returns its fallback, and when the fallback is JSON-serializable the read
\* seeds the store: every later read of the key, whatever its own fallback,
\* returns the first fallback until the key is written again.
C3_Seeded ==
  [][/\ (/\ last'.op = "get"
         /\ mode = "available"
         /\ ~store[last'.key].present)
        => (/\ last'.ret = last'.arg
            /\ IsJSON(last'.arg)
                 => /\ written'[last'.key] = [how |-> "seed", v |-> last'.arg]
                    /\ \A other \in Values :
                         getLocalStorage(store', mode', last'.key, other).ret
                           = last'.arg)
     /\ (/\ last'.op = "get"
         /\ mode = "available"
         /\ written[last'.key].how = "seed"
         /\ IsJSON(written[last'.key].v))
        => (/\ last'.ret = written[last'.key].v
            /\ written' = written)]_vars

\* A later read, with another fallback, that returned the seeded false.
C3_Witness ==
  /\ last.op = "get"
  /\ mode = "available"
  /\ written[last.key] = [how |-> "seed", v |-> JBool(FALSE)]
  /\ last.arg = JNum(1)
  /\ last.ret = JBool(FALSE)

\* C4: while the store is unavailable (undefined, or blocked by the host),
\* setLocalStorage changes nothing and does not throw, and getLocalStorage
\* returns the fallback it was given, whatever was stored before; where
\* localStorage is undefined nothing is logged either.
C4_Unavailable ==
  [][(mode \in {"unavailable", "blocked"} /\ IsCall(last'))
     => (/\ ~last'.threw
         /\ store' = store
         /\ last'.op = "get" => last'.ret = last'.arg
         /\ mode = "unavailable" => ~last'.logged)]_vars

\* A read in a blocked store that holds a value for the key: the fallback
\* came back, not the stored value.
C4_Witness ==
  /\ last.op = "get"
  /\ mode = "blocked"
  /\ store[last.key] = Item(<<"0">>)
  /\ last.arg = JNum(1)
  /\ last.ret = JNum(1)

\* C5: no call of setLocalStorage or getLocalStorage throws, in any state
\* of the store and for any argument; getLocalStorage returns a value.
C5_Contained ==
  IsCall(last) => (~last.threw /\ (last.op = "get" => last.ret \in Values))

\* A write that failed in a full store: the error was logged, not thrown.
C5_Witness ==
  /\ last.op = "set"
  /\ mode = "full"
  /\ last.logged
  /\ ~last.threw

C9_KeyIsolation ==
  [][IsCall(last')
     => \A k \in Keys \ {last'.key} : store'[k] = store[k]]_vars

\* A write under one key in a store that holds another text under the
\* other key.
C9_Witness ==
  /\ last.op = "set"
  /\ written[last.key].how = "set"
  /\ \E k \in Keys \ {last.key} :
       /\ written[k].how = "set"
       /\ store[k].present
       /\ store[k] # store[last.key]

\* C10: when the text under the key is not empty and parses, a
\* getLocalStorage(key, fallback) that can read the store returns the parsed
\* text, whatever the fallback, and writes nothing; a read changes the store
\* only when the text is absent or empty.
C10_ReadHit ==
  [][(last'.op = "get" /\ mode \in Readable)
     => (/\ (Truthy(store[last'.key]) /\ ~Unparsable(store[last'.key]))
              => (/\ last'.ret = JSONParse(store[last'.key].text).v
                  /\ store' = store
                  /\ written' = written)
         /\ store' # store => ~Truthy(store[last'.key]))]_vars

\* A read that returned the stored false, not its fallback.
C10_Witness ==
  /\ last.op = "get"
  /\ mode \in Readable
  /\ store[last.key] = Item(<<"f", "a", "l", "s", "e">>)
  /\ last.arg = JNum(1)
  /\ last.ret = JBool(FALSE)

C8_PublishedOnly ==
  built
  => (/\ \A i \in 1..Len(index) : files[index[i]].listed /\ files[index[i]].published
      /\ \A s \in routes : files[s].present /\ files[s].published
      /\ visit.result = "page" => files[visit.slug].published
      /\ (visit.result # "none" /\ ~files[visit.slug].published)
           => visit.result = "notFound")

\* A direct link to a listed, unpublished article found no page, and the
\* index, which holds another article, does not list it.
C8_Witness ==
  /\ built
  /\ visit.result = "notFound"
  /\ files[visit.slug].present
  /\ files[visit.slug].listed
  /\ ~files[visit.slug].published
  /\ Len(index) = 1
  /\ index[1] # visit.slug

====
